---- MODULE Spec2Model ----
(***************************************************************************)
(* Session timeline state engine of FormulaOneBot's web front end.         *)
(*                                                                         *)
(*   - TimelineEngine.evaluate, the Poller and the ScheduleAggregator's    *)
(*     resolution policy, as designed in spec.md sections 4.1, 4.2, 4.4    *)
(*     (the Hero that IndexPage of unnamed/part_009 hands nextRace,        *)
(*     schedule and userTz to);                                            *)
(*   - the Hero countdown component of front/src/pages/index/Hero.tsx,     *)
(*     mounted by IndexPage of front/src/pages/index/Index.tsx;            *)
(*   - HeroDataProvider.load of front/src/context/HeroDataContext.tsx;     *)
(*   - the timezone preview timer of SettingsPage,                         *)
(*     front/src/pages/settings/SettingsPage.tsx;                          *)
(*   - load and loadTrack of NextRacePage,                                 *)
(*     front/src/pages/next-race/NextRacePage.tsx;                         *)
(*   - the session rows of RaceDetailsPage,                                *)
(*     front/src/pages/race-details/RaceDetailsPage.tsx;                   *)
(*   - toggleDriver of front/src/pages/favorites/FavoritesPage.tsx;        *)
(*   - the race cards of SeasonPage, unnamed/part_011.                     *)
(*                                                                         *)
(* Instants are milliseconds since an arbitrary origin T = 0.              *)
(***************************************************************************)
EXTENDS Integers, Sequences, FiniteSets

VARIABLES
    schedule,     \* TimelineEngine: the cached schedule (sequence of sessions)
    now,          \* the clock: instant of the latest reading
    timeline,     \* TimelineEngine: the TimelineState last published
    evaluated,    \* TimelineEngine: TRUE once a tick has published a state
    data,         \* IndexPage (Index.tsx): the next-race response kept in state
    indexPc,      \* IndexPage.load: "loading" while the request is in flight
    response,     \* IndexPage.load: the response its request resolved with
    cancelled,    \* IndexPage effect: the cancelled flag of its closure
    mounted,      \* IndexPage/Hero are on screen
    subIsLive,    \* Hero: state subIsLive
    timerText,    \* Hero: state timerText
    interval,     \* Hero: targetTime of the running setInterval, or NoTimer
    timers,       \* Hero: targetTime of every interval set and not cleared
    ticked,       \* Hero: TRUE once update() has run
    stMounted,    \* SettingsPage is on screen
    stTimezone,   \* SettingsPage: state timezone
    timePreview,  \* SettingsPage: state timePreview
    previewId,    \* SettingsPage: timezone of the closure whose interval the
                  \* current effect holds, or NoId
    previewTimers,\* SettingsPage: closure of every interval set and not cleared
    settingsPc,   \* SettingsPage: "loading" while /api/settings is in flight
    settingsCancelled, \* SettingsPage: the cancelled flag of the fetch effect
    nrMounted,    \* NextRacePage is on screen
    page,         \* NextRacePage: its state (title, eventName, raceTimeText,
                  \* sessions, loading, error, trackSvg)
    nrLoad,       \* NextRacePage.load: position, cancelled flag, locals and what
                  \* the settings request gave (a timezone, "" or "rejected")
    track,        \* NextRacePage.loadTrack: position and cancelled flag
    setAfterUnmount, \* NextRacePage: a state setter was called after teardown
    ambientTz,    \* the device's own timezone
    details,      \* RaceDetailsPage: its state (data, settings, loading, error)
    rdLoad,       \* RaceDetailsPage.load: position and cancelled flag
    rdRows,       \* RaceDetailsPage: the session rows of the latest render
    userFavorites,\* FavoritesPage: the driver codes of state userFavorites
    serverFavorites, \* backend: the user's favourite driver codes
    inFlight,     \* FavoritesPage.toggleDriver: requests in flight, per code
    toggles,      \* FavoritesPage.toggleDriver: calls made so far
    races,        \* SeasonPage: state races (the date of each race, a day number)
    today,        \* SeasonPage: the day number of the device's current date
    cards,        \* SeasonPage: the status of each race card of the latest render
    hstate,       \* HeroDataProvider: state {nextRace, schedule, userTz, loaded}
    loads,        \* HeroDataProvider.load: one record per call of load()
    srvSchedule   \* backend: the sessions /api/weekend-schedule answers with

evalVars == <<schedule, timeline, evaluated>>
heroVars == <<data, indexPc, response, cancelled, mounted, subIsLive, timerText,
              interval, timers, ticked>>
loadVars == <<hstate, loads, srvSchedule>>
settingsVars == <<stMounted, stTimezone, timePreview, previewId, previewTimers,
                  settingsPc, settingsCancelled>>
raceDetailsVars == <<ambientTz, details, rdLoad, rdRows>>
favoritesVars == <<userFavorites, serverFavorites, inFlight, toggles>>
seasonVars == <<races, today, cards>>
nextRaceVars == <<nrMounted, page, nrLoad, track, setAfterUnmount>>
nonEvalVars ==
    <<heroVars, loadVars, settingsVars, nextRaceVars, raceDetailsVars,
      favoritesVars, seasonVars>>
nonHeroVars ==
    <<evalVars, loadVars, settingsVars, nextRaceVars, raceDetailsVars,
      favoritesVars, seasonVars>>
nonLoadVars ==
    <<evalVars, heroVars, settingsVars, nextRaceVars, raceDetailsVars,
      favoritesVars, seasonVars>>
nonSettingsVars ==
    <<evalVars, heroVars, loadVars, nextRaceVars, raceDetailsVars,
      favoritesVars, seasonVars>>
nonNextRaceVars ==
    <<evalVars, heroVars, loadVars, settingsVars, raceDetailsVars,
      favoritesVars, seasonVars>>
nonFavoritesVars ==
    <<evalVars, heroVars, loadVars, settingsVars, nextRaceVars, raceDetailsVars,
      seasonVars>>
nonSeasonVars ==
    <<evalVars, heroVars, loadVars, settingsVars, nextRaceVars, raceDetailsVars,
      favoritesVars>>
nonRaceDetailsVars ==
    <<evalVars, heroVars, loadVars, settingsVars, nextRaceVars,
      favoritesVars, seasonVars>>
vars == <<schedule, now, timeline, evaluated,
          data, indexPc, response, cancelled, mounted, subIsLive, timerText,
          interval, timers, ticked,
          stMounted, stTimezone, timePreview, previewId, previewTimers,
          settingsPc, settingsCancelled,
          nrMounted, page, nrLoad, track, setAfterUnmount,
          ambientTz, details, rdLoad, rdRows,
          userFavorites, serverFavorites, inFlight, toggles,
          races, today, cards,
          hstate, loads, srvSchedule>>

----------------------------------------------------------------------------
(* Bounds and time base *)

MaxSessions == 3

SECOND == 1000
HOUR == 3600 * SECOND
SESSION_DURATION == 90 * 60 * SECOND

NoStart == 0 - 1

\* Start instants a session may carry: T+1h, T+2h (overlaps the first
\* window), T+5h, T+24h.
Starts == {HOUR, 2 * HOUR, 5 * HOUR, 24 * HOUR}

\* Instants at which the clock is read: the boundaries of the windows above
\* and points strictly inside and outside them.
Instants ==
    {0, HOUR - 1, HOUR, HOUR + 1, 2 * HOUR, HOUR + SESSION_DURATION,
     HOUR + SESSION_DURATION + 1, 5 * HOUR, 24 * HOUR,
     24 * HOUR + SESSION_DURATION, 24 * HOUR + SESSION_DURATION + 1, 30 * HOUR}

Names == 1..MaxSessions

Session == [name : Names, start : Starts \cup {NoStart}]

NoSession == [name |-> 0, start |-> NoStart]

\* Schedules of up to MaxSessions sessions, each named by its place in the
\* source list.
Schedules ==
    UNION { {s \in [1..n -> Session] : \A i \in 1..n : s[i].name = i} : n \in 0..MaxSessions }

Phases == {"future", "running", "completed", "unknown"}

----------------------------------------------------------------------------
(* TimelineEngine.evaluate, spec.md section 4.2 *)

Min(S) == CHOOSE x \in S : \A y \in S : x <= y

CeilDiv(a, b) == (a + b - 1) \div b

HasStart(s) == s.start # NoStart

ClassifiableAll(sched) == sched

\* Step 1: the sessions that carry a start instant, in source order.
Classifiable(sched) == SelectSeq(sched, HasStart)

RECURSIVE InsertSortedUnstable(_, _)
InsertSortedUnstable(s, sorted) ==
    IF sorted = <<>> THEN <<s>>
    ELSE IF s.start <= Head(sorted).start THEN <<s>> \o sorted
    ELSE <<Head(sorted)>> \o InsertSortedUnstable(s, Tail(sorted))

\* Step 2: stable insertion sort by start instant (ties keep source order).
RECURSIVE InsertSorted(_, _)
InsertSorted(s, sorted) ==
    IF sorted = <<>> THEN <<s>>
    ELSE IF s.start < Head(sorted).start THEN <<s>> \o sorted
    ELSE <<Head(sorted)>> \o InsertSorted(s, Tail(sorted))

RECURSIVE SortByStart(_)
SortByStart(seq) ==
    IF seq = <<>> THEN <<>>
    ELSE InsertSorted(seq[Len(seq)], SortByStart(SubSeq(seq, 1, Len(seq) - 1)))

Unsorted(sched) == Classifiable(sched)

sortedSessions(sched) == SortByStart(Classifiable(sched))

isFutureOrStarted(s, t) == t < s.start + SESSION_DURATION

isFuture(s, t) == t < s.start

isRunningNoEnd(s, t) == s.start <= t

isRunning(s, t) == s.start <= t /\ t <= s.start + SESSION_DURATION

evaluateRunningFirst(sched, t) ==
    LET cls == sortedSessions(sched)
        fut == {i \in DOMAIN cls : isFuture(cls[i], t)}
        run == {i \in DOMAIN cls : isRunning(cls[i], t)}
    IN  IF run # {}
        THEN [phase |-> "running", activeSession |-> cls[Min(run)],
              secondsRemaining |-> 0]
        ELSE IF fut # {}
        THEN [phase |-> "future", activeSession |-> cls[Min(fut)],
              secondsRemaining |-> CeilDiv(cls[Min(fut)].start - t, SECOND)]
        ELSE IF cls # <<>>
        THEN [phase |-> "completed", activeSession |-> NoSession,
              secondsRemaining |-> 0]
        ELSE [phase |-> "unknown", activeSession |-> NoSession,
              secondsRemaining |-> 0]

\* Steps 3-6.
evaluate(sched, t) ==
    LET cls == sortedSessions(sched)
        fut == {i \in DOMAIN cls : isFuture(cls[i], t)}
        run == {i \in DOMAIN cls : isRunning(cls[i], t)}
    IN  IF fut # {}
        THEN [phase |-> "future", activeSession |-> cls[Min(fut)],
              secondsRemaining |-> CeilDiv(cls[Min(fut)].start - t, SECOND)]
        ELSE IF run # {}
        THEN [phase |-> "running", activeSession |-> cls[Min(run)],
              secondsRemaining |-> 0]
        ELSE IF cls # <<>>
        THEN [phase |-> "completed", activeSession |-> NoSession,
              secondsRemaining |-> 0]
        ELSE [phase |-> "unknown", activeSession |-> NoSession,
              secondsRemaining |-> 0]

EvalIdle ==
    /\ schedule = <<>>
    /\ timeline = [phase |-> "unknown", activeSession |-> NoSession, secondsRemaining |-> 0]
    /\ evaluated = FALSE

----------------------------------------------------------------------------
(* The next-race response (the hint) *)

Statuses == {"ok", "season_finished", "error"}

\* next_session_iso values a response may carry (NoStart: field absent).
HintStarts == {HOUR, 5 * HOUR, 30 * HOUR}

\* A next_session_iso that is present and is not a date Date can parse.
Malformed == 0 - 2

\* A NextRaceResponse. status "none": the field is absent. event, season,
\* round and name are 0 when absent (or falsy), next_session_iso is NoStart
\* when absent.
Hint ==
    [status : Statuses, event : {0, 1}, season : {0, 1}, round : {0, 1},
     iso : HintStarts \cup {NoStart, Malformed}, name : {0, 1}]

\* Hero's props when IndexPage spreads data = null: every field undefined.
NoData ==
    [status |-> "none", event |-> 0, season |-> 0, round |-> 0,
     iso |-> NoStart, name |-> 0]

----------------------------------------------------------------------------
(* Hero countdown component, front/src/pages/index/Hero.tsx, mounted by     *)
(* IndexPage, front/src/pages/index/Index.tsx                               *)

NoTimer == 0 - 1

\* useState("--:--:--")
NoText ==
    [set |-> FALSE, showDays |-> FALSE,
     days |-> 0, hours |-> 0, minutes |-> 0, seconds |-> 0]

DAY == 24 * HOUR
MINUTE == 60 * SECOND

\* The number NaN: the time value of an invalid Date, and every result of
\* arithmetic on it.
NaN == 0 - 10 * DAY

\* Hero.tsx 17: new Date(next_session_iso).getTime()
getTime(iso) == IF iso = Malformed THEN NaN ELSE iso

countdownTextNoCarry(distance) ==
    IF distance = NaN
    THEN [set |-> TRUE, showDays |-> FALSE,
          days |-> NaN, hours |-> NaN, minutes |-> NaN, seconds |-> NaN]
    ELSE [set |-> TRUE,
          showDays |-> (distance \div DAY) > 0,
          days |-> distance \div DAY,
          hours |-> distance \div HOUR,
          minutes |-> (distance % HOUR) \div MINUTE,
          seconds |-> (distance % MINUTE) \div SECOND]

\* Hero.tsx 26-33: the text built from a distance in milliseconds; the days
\* are part of the text only when days > 0 (NaN > 0 is false).
countdownText(distance) ==
    IF distance = NaN
    THEN [set |-> TRUE, showDays |-> FALSE,
          days |-> NaN, hours |-> NaN, minutes |-> NaN, seconds |-> NaN]
    ELSE [set |-> TRUE,
          showDays |-> (distance \div DAY) > 0,
          days |-> distance \div DAY,
          hours |-> (distance % DAY) \div HOUR,
          minutes |-> (distance % HOUR) \div MINUTE,
          seconds |-> (distance % MINUTE) \div SECOND]

neverPastTarget(distance) == FALSE

\* Hero.tsx 22: distance < 0 (false for NaN).
isPastTarget(distance) == distance # NaN /\ distance < 0

leaveInterval(live, id) == live

\* Hero.tsx 38: clearInterval(interval)
clearInterval(live, id) == live \ {id}

\* Hero.tsx 19-34: update() with the clock reading t.
update(targetTime, t) ==
    LET distance == IF targetTime = NaN THEN NaN ELSE targetTime - t
    IN  IF isPastTarget(distance)
        THEN /\ subIsLive' = TRUE
             /\ UNCHANGED timerText
        ELSE /\ timerText' = countdownText(distance)
             /\ UNCHANGED subIsLive

\* Hero.tsx 9-11: the label of the badge.
subLabel(props) ==
    IF props.iso # NoStart /\ props.name # 0 THEN "session"
    ELSE IF props.status = "season_finished" THEN "season_finished"
    ELSE "no_schedule"

\* Hero.tsx 14-39: the effect run for props whose next_session_iso differs
\* from the previous render's (here: from undefined).
heroEffect(props) ==
    IF props.iso = NoStart
    THEN UNCHANGED <<now, subIsLive, timerText, interval, timers, ticked>>
    ELSE \E t \in Instants :
            /\ t >= now
            /\ now' = t
            /\ update(getTime(props.iso), t)
            /\ interval' = getTime(props.iso)
            /\ timers' = timers \cup {getTime(props.iso)}
            /\ ticked' = TRUE

HeroIdle ==
    /\ data = NoData
    /\ indexPc = "idle"
    /\ cancelled = FALSE
    /\ mounted = FALSE
    /\ subIsLive = FALSE
    /\ timerText = NoText
    /\ interval = NoTimer
    /\ timers = {}
    /\ response = NoData
    /\ ticked = FALSE

\* Index.tsx 28-35: the request resolves with response h.
IndexLoadResolve ==
    \E h \in Hint :
        /\ indexPc = "loading"
        /\ indexPc' = "done"
        /\ response' = h
        /\ IF ~cancelled /\ h.status = "ok" /\ h.event # 0
           THEN /\ data' = h
                /\ heroEffect(h)
           ELSE UNCHANGED <<data, now, subIsLive, timerText, interval, timers, ticked>>
        /\ UNCHANGED <<cancelled, mounted, nonHeroVars>>

\* Index.tsx 36-40: the request rejects.
IndexLoadReject ==
    /\ indexPc = "loading"
    /\ indexPc' = "done"
    /\ UNCHANGED <<data, response, now, cancelled, mounted, subIsLive, timerText,
                   interval, timers, ticked, nonHeroVars>>

\* Hero.tsx 37: an interval that is set fires and runs the update() of its
\* closure.
HeroTick ==
    /\ \E targetTime \in timers, t \in Instants :
          /\ t >= now
          /\ now' = t
          /\ update(targetTime, t)
    /\ ticked' = TRUE
    /\ UNCHANGED <<data, indexPc, response, cancelled, mounted, interval, timers, nonHeroVars>>

\* Index.tsx 44-46 and Hero.tsx 38: the view is torn down.
IndexUnmount ==
    /\ mounted
    /\ mounted' = FALSE
    /\ cancelled' = TRUE
    /\ timers' = IF interval = NoTimer THEN timers ELSE clearInterval(timers, interval)
    /\ interval' = NoTimer
    /\ UNCHANGED <<data, indexPc, response, now, subIsLive, timerText, ticked, nonHeroVars>>


\* What Hero renders, read as a TimelineState: the live indicator replaces
\* the countdown (Hero.tsx 60); a countdown is running when the effect has
\* set a target; the badge names a session only when subLabel is the
\* session name.
heroPhase ==
    IF subIsLive THEN "running"
    ELSE IF data.iso # NoStart THEN "future"
    ELSE IF data.status = "season_finished" THEN "completed"
    ELSE "unknown"

heroHasActiveSession == subLabel(data) = "session"

----------------------------------------------------------------------------
(* Formatting an instant for a timezone: Date.toLocaleTimeString with the   *)
(* timeZone option                                                          *)

\* A timezone id Intl does not accept (RangeError).
BadTimezone == "Mars/Olympus"

ValidTimezones == {"UTC", "Europe/Moscow", "Etc/GMT-3"}

utcOffset(tz) == IF tz \in {"Europe/Moscow", "Etc/GMT-3"} THEN 3 * HOUR ELSE 0

\* The wall-clock hour and minute of instant t in a timezone Intl accepts.
toLocaleTimeString(t, tz) ==
    [formatted |-> TRUE,
     hour |-> ((t + utcOffset(tz)) % DAY) \div HOUR,
     minute |-> ((t + utcOffset(tz)) % HOUR) \div MINUTE]

----------------------------------------------------------------------------
(* SettingsPage, front/src/pages/settings/SettingsPage.tsx: the timezone      *)
(* preview and its one-second timer                                         *)

DefaultTimezone == "Etc/GMT-3"

\* Timezones the select offers (two of TIMEZONES) and the ones /api/settings
\* may answer with ("": absent or empty).
SelectTimezones == {"Etc/GMT-3", "UTC"}
AnsweredTimezones == {"", "UTC", "Etc/GMT-3", BadTimezone}

NoId == "none"

\* useState("--:--") and the text of the catch branch.
NoPreview == [formatted |-> FALSE, hour |-> 0, minute |-> 0]

\* SettingsPage.tsx 51-63: the text updateTimePreview sets at instant t.
updateTimePreview(tz, t) ==
    IF tz \in ValidTimezones THEN toLocaleTimeString(t, tz) ELSE NoPreview

SettingsIdle ==
    /\ stMounted = FALSE
    /\ stTimezone = DefaultTimezone
    /\ timePreview = NoPreview
    /\ previewId = NoId
    /\ previewTimers = {}
    /\ settingsPc = "idle"
    /\ settingsCancelled = FALSE

\* SettingsPage.tsx 65-69: the effect run for the closure over timezone tz,
\* after the cleanup of the effect of the previous render, if any.
previewEffect(tz) ==
    \E t \in Instants :
        /\ t >= now
        /\ now' = t
        /\ timePreview' = updateTimePreview(tz, t)
        /\ previewTimers' =
              (IF previewId = NoId THEN previewTimers
               ELSE clearInterval(previewTimers, previewId)) \cup {tz}
        /\ previewId' = tz

\* The page is mounted: both effects run (SettingsPage.tsx 65-84).
SettingsMount ==
    /\ ~stMounted
    /\ ~mounted /\ indexPc = "idle"
    /\ settingsPc \in {"idle", "done"}
    /\ stMounted' = TRUE
    /\ stTimezone' = DefaultTimezone
    /\ settingsPc' = "loading"
    /\ settingsCancelled' = FALSE
    /\ previewEffect(DefaultTimezone)
    /\ UNCHANGED nonSettingsVars

\* SettingsPage.tsx 68: an interval that is set fires.
SettingsTick ==
    /\ \E tz \in previewTimers, t \in Instants :
          /\ t >= now
          /\ now' = t
          /\ timePreview' = updateTimePreview(tz, t)
    /\ UNCHANGED <<stMounted, stTimezone, previewId, previewTimers, settingsPc,
                   settingsCancelled, nonSettingsVars>>

\* setTimezone(tz) followed by the render it causes.
setTimezone(tz) ==
    IF tz = stTimezone
    THEN UNCHANGED <<now, stTimezone, timePreview, previewId, previewTimers>>
    ELSE /\ stTimezone' = tz
         /\ previewEffect(tz)

\* SettingsPage.tsx 73-78: /api/settings resolves.
SettingsResolve ==
    \E tz \in AnsweredTimezones :
        /\ settingsPc = "loading"
        /\ settingsPc' = "done"
        /\ IF ~settingsCancelled /\ tz # ""
           THEN setTimezone(tz)
           ELSE UNCHANGED <<now, stTimezone, timePreview, previewId, previewTimers>>
        /\ UNCHANGED <<stMounted, settingsCancelled, nonSettingsVars>>

\* SettingsPage.tsx 79: /api/settings rejects.
SettingsReject ==
    /\ settingsPc = "loading"
    /\ settingsPc' = "done"
    /\ UNCHANGED <<now, stMounted, stTimezone, timePreview, previewId, previewTimers,
                   settingsCancelled, nonSettingsVars>>

\* SettingsPage.tsx 120-124: the user picks a timezone.
SelectTimezone ==
    \E tz \in SelectTimezones :
        /\ stMounted
        /\ tz # stTimezone
        /\ setTimezone(tz)
        /\ UNCHANGED <<stMounted, settingsPc, settingsCancelled, nonSettingsVars>>

\* SettingsPage.tsx 69 and 80-82: the page is torn down.
SettingsUnmount ==
    /\ stMounted
    /\ stMounted' = FALSE
    /\ settingsCancelled' = TRUE
    /\ previewTimers' =
          IF previewId = NoId THEN previewTimers
          ELSE clearInterval(previewTimers, previewId)
    /\ previewId' = NoId
    /\ UNCHANGED <<now, stTimezone, timePreview, settingsPc, nonSettingsVars>>

----------------------------------------------------------------------------
(* NextRacePage, front/src/pages/next-race/NextRacePage.tsx: state          *)

\* A formatted time of day, or what stands in its place:
\*   "placeholder"  the text "--:--"
\*   "formatted"    the wall-clock time in the user's timezone
\*   "invalid"      the text toLocaleTimeString gives for an invalid Date
\*   "fallback"     the session's own utc text (NextRacePage.tsx 103)
TimeText(kind, t, tz) ==
    IF kind = "formatted"
    THEN [kind |-> kind, hour |-> toLocaleTimeString(t, tz).hour,
          minute |-> toLocaleTimeString(t, tz).minute]
    ELSE [kind |-> kind, hour |-> 0, minute |-> 0]

\* NextRacePage.tsx 19-27: the state at mount.
initialPage ==
    [title |-> "loading", eventName |-> 0,
     raceTimeText |-> TimeText("placeholder", 0, "UTC"),
     sessions |-> <<>>, loading |-> TRUE, error |-> FALSE, trackSvg |-> FALSE]

IdleNrLoad ==
    [pc |-> "idle", cancelled |-> FALSE, raceData |-> NoData,
     settings |-> "pending", userTz |-> "UTC",
     schedRes |-> "none", threw |-> FALSE]

IdleTrack == [pc |-> "idle", cancelled |-> FALSE]

NextRaceIdle ==
    /\ nrMounted = FALSE
    /\ page = initialPage
    /\ nrLoad = IdleNrLoad
    /\ track = IdleTrack
    /\ setAfterUnmount = FALSE

----------------------------------------------------------------------------
(* RaceDetailsPage, front/src/pages/race-details/RaceDetailsPage.tsx: the   *)
(* session rows (lines 127-154)                                             *)

\* Timezones a device may be set to.
AmbientTimezones == {"UTC", "Europe/Moscow"}

\* What /api/settings may answer in its timezone field ("": absent or empty).
RaceDetailsTimezones == {"", "Europe/Moscow", BadTimezone}

\* Session lists of /api/race-details: utc_iso is an instant, local a
\* wall-clock reading without offset; NoStart when the field is absent.
RaceDetailsSessions ==
    { << [name |-> 1, utc_iso |-> HOUR, local |-> NoStart],
         [name |-> 2, utc_iso |-> NoStart, local |-> NoStart] >>,
      << [name |-> 1, utc_iso |-> 24 * HOUR, local |-> NoStart],
         [name |-> 2, utc_iso |-> NoStart, local |-> 5 * HOUR] >>,
      << [name |-> 1, utc_iso |-> 5 * HOUR, local |-> 5 * HOUR] >> }

\* RaceDetailsPage.tsx 25-28: the state at mount.
initialDetails ==
    [data |-> <<>>, hasData |-> FALSE, settings |-> "", loading |-> TRUE, error |-> FALSE]

RaceDetailsIdle ==
    /\ ambientTz = "UTC"
    /\ details = initialDetails
    /\ rdLoad = [pc |-> "idle", cancelled |-> FALSE]
    /\ rdRows = <<>>

\* RaceDetailsPage.tsx 131-135: the instant the row is classified and
\* formatted by; a local reading is parsed in the device's timezone, and a
\* session with neither field gets the instant of the render.
sessionDateOf(session, t, ambient) ==
    IF session.utc_iso # NoStart THEN session.utc_iso
    ELSE IF session.local # NoStart THEN session.local - utcOffset(ambient)
    ELSE t

\* RaceDetailsPage.tsx 138-154: a rejected timezone id throws, and the catch
\* formats again without the timeZone option, i.e. in the device's timezone.
timeStrOf(sessionDate, tz, ambient) ==
    IF tz \in ValidTimezones THEN toLocaleTimeString(sessionDate, tz)
    ELSE toLocaleTimeString(sessionDate, ambient)

\* RaceDetailsPage.tsx 130-154: one row rendered at instant t.
detailsRow(session, t, tz, ambient) ==
    LET sessionDate == sessionDateOf(session, t, ambient)
        isPast == sessionDate < t
    IN  [name |-> session.name,
         isPast |-> isPast,
         isActive |-> ~isPast /\ sessionDate - t < 86400000,
         timeStr |-> timeStrOf(sessionDate, tz, ambient)]

\* RaceDetailsPage.tsx 127-128
detailsTz(settings) == IF settings # "" THEN settings ELSE "UTC"

\* RaceDetailsPage.tsx 104-170: what a render at instant t puts on screen.
detailsRender(d, t, ambient) ==
    IF d.error \/ d.loading \/ ~d.hasData THEN <<>>
    ELSE [i \in DOMAIN d.data |-> detailsRow(d.data[i], t, detailsTz(d.settings), ambient)]

\* RaceDetailsPage.tsx 41-47: both requests of Promise.all resolve.
RaceDetailsResolve ==
    \E sessions \in RaceDetailsSessions, tz \in RaceDetailsTimezones :
        /\ rdLoad.pc = "awaitBoth"
        /\ IF rdLoad.cancelled
           THEN /\ rdLoad' = [rdLoad EXCEPT !.pc = "done"]
                /\ UNCHANGED details
           ELSE /\ rdLoad' = [rdLoad EXCEPT !.pc = "awaitTrack"]
                /\ details' = [details EXCEPT !.data = sessions, !.hasData = TRUE,
                                              !.settings = tz]
        /\ UNCHANGED <<now, ambientTz, rdRows, nonRaceDetailsVars>>

\* RaceDetailsPage.tsx 41-44, 55-62: one of the two requests rejects.
RaceDetailsReject ==
    /\ rdLoad.pc = "awaitBoth"
    /\ rdLoad' = [rdLoad EXCEPT !.pc = "done"]
    /\ details' = IF rdLoad.cancelled THEN details
                  ELSE [details EXCEPT !.error = TRUE, !.loading = FALSE]
    /\ UNCHANGED <<now, ambientTz, rdRows, nonRaceDetailsVars>>

\* RaceDetailsPage.tsx 49-62: the track request settles (rejected: fetch or
\* the body read threw), loading ends and the page renders its rows.
RaceDetailsTrackSettle ==
    \E rejected \in BOOLEAN, t \in Instants :
        /\ rdLoad.pc = "awaitTrack"
        /\ rdLoad' = [rdLoad EXCEPT !.pc = "done"]
        /\ t >= now
        /\ IF rdLoad.cancelled
           THEN UNCHANGED <<now, details, rdRows>>
           ELSE /\ details' = [details EXCEPT !.error = rejected, !.loading = FALSE]
                /\ now' = t
                /\ rdRows' = detailsRender(details', t, ambientTz)
        /\ UNCHANGED <<ambientTz, nonRaceDetailsVars>>

\* RaceDetailsPage.tsx 65-67: the page is torn down.
RaceDetailsUnmount ==
    /\ ~rdLoad.cancelled
    /\ rdLoad' = [rdLoad EXCEPT !.cancelled = TRUE]
    /\ UNCHANGED <<now, ambientTz, details, rdRows, nonRaceDetailsVars>>

----------------------------------------------------------------------------
(* FavoritesPage, front/src/pages/favorites/FavoritesPage.tsx: toggleDriver *)
(* (toggleTeam, lines 89-108, is the same code over the teams)              *)

MaxToggles == 3

Codes == {"VER", "HAM"}

\* FavoritesPage.tsx 70-73, 82-85: the code is removed when present and
\* added when absent.
toggled(favs, code) == IF code \in favs THEN favs \ {code} ELSE favs \cup {code}

FavoritesIdle ==
    /\ userFavorites = {}
    /\ serverFavorites = {}
    /\ inFlight = [c \in Codes |-> 0]
    /\ toggles = 0

\* FavoritesPage.tsx 68-79: the optimistic update and the request sent.
ToggleDriver(code) ==
    /\ toggles < MaxToggles
    /\ toggles' = toggles + 1
    /\ userFavorites' = toggled(userFavorites, code)
    /\ inFlight' = [inFlight EXCEPT ![code] = @ + 1]
    /\ UNCHANGED <<now, serverFavorites, nonFavoritesVars>>

\* FavoritesPage.tsx 74-79: the server applies the toggle and answers 2xx;
\* fetch resolves and nothing more is written.
ToggleApplied(code) ==
    /\ inFlight[code] > 0
    /\ inFlight' = [inFlight EXCEPT ![code] = @ - 1]
    /\ serverFavorites' = toggled(serverFavorites, code)
    /\ UNCHANGED <<now, userFavorites, toggles, nonFavoritesVars>>

\* FavoritesPage.tsx 74-79: the server refuses with a non-2xx response;
\* fetch resolves all the same and the response is not looked at.
ToggleRefused(code) ==
    /\ inFlight[code] > 0
    /\ inFlight' = [inFlight EXCEPT ![code] = @ - 1]
    /\ UNCHANGED <<now, userFavorites, serverFavorites, toggles, nonFavoritesVars>>

\* FavoritesPage.tsx 80-86: the request never reaches the server, fetch
\* rejects and the catch toggles the code back.
ToggleNetworkError(code) ==
    /\ inFlight[code] > 0
    /\ inFlight' = [inFlight EXCEPT ![code] = @ - 1]
    /\ userFavorites' = toggled(userFavorites, code)
    /\ UNCHANGED <<now, serverFavorites, toggles, nonFavoritesVars>>

----------------------------------------------------------------------------
(* SeasonPage, unnamed/part_011: the status of the race cards               *)

MaxRaces == 3

\* A race date that Date cannot parse.
BadDate == 0 - 1

\* Race dates and current dates, as day numbers.
RaceDates == {0, 2, 3, BadDate}
Days == 0..4

RECURSIVE SeqsUpTo(_, _)
SeqsUpTo(S, n) ==
    IF n = 0 THEN {<<>>}
    ELSE SeqsUpTo(S, n - 1) \cup
         {Append(q, x) : q \in {p \in SeqsUpTo(S, n - 1) : Len(p) = n - 1}, x \in S}

\* Lists /api/season may answer with, in any order.
RaceLists == SeqsUpTo(RaceDates, MaxRaces)

SeasonIdle ==
    /\ races = <<>>
    /\ today = 0
    /\ cards = <<>>

\* part_011 239-240, 280-281: the instant one day after the race date (NaN
\* for a date that does not parse).
raceEndOf(date) == IF date = BadDate THEN NaN ELSE date * DAY + DAY

\* part_011 236-237: midnight of the device's current date.
midnightOf(day, ambient) == day * DAY - utcOffset(ambient)

\* raceEnd >= now and raceEnd < now (both false for NaN).
notBefore(raceEnd, midnight) == raceEnd # NaN /\ raceEnd >= midnight
before(raceEnd, midnight) == raceEnd # NaN /\ raceEnd < midnight

nextRaceIndexLast(list, midnight) ==
    IF \E i \in DOMAIN list : notBefore(raceEndOf(list[i]), midnight)
    THEN CHOOSE i \in DOMAIN list :
            /\ notBefore(raceEndOf(list[i]), midnight)
            /\ \A j \in DOMAIN list : notBefore(raceEndOf(list[j]), midnight) => j <= i
    ELSE 0

\* part_011 238-242: findIndex, 0 standing for "not found".
nextRaceIndex(list, midnight) ==
    IF \E i \in DOMAIN list : notBefore(raceEndOf(list[i]), midnight)
    THEN Min({i \in DOMAIN list : notBefore(raceEndOf(list[i]), midnight)})
    ELSE 0

\* part_011 278-289
statusClass(list, index, midnight) ==
    IF before(raceEndOf(list[index]), midnight) THEN "finished"
    ELSE IF index = nextRaceIndex(list, midnight) THEN "next"
    ELSE "future"

\* part_011 276-289: the cards of a render.
seasonRender(list, day, ambient) ==
    [i \in DOMAIN list |-> statusClass(list, i, midnightOf(day, ambient))]

\* part_011 172-189: /api/season resolves with the list of the year shown
\* and the page renders.
SeasonResolve ==
    \E list \in RaceLists, day \in Days :
        /\ races = <<>>
        /\ day >= today
        /\ today' = day
        /\ races' = list
        /\ cards' = seasonRender(list, day, ambientTz)
        /\ UNCHANGED <<now, nonSeasonVars>>

\* A later render of the same list.
SeasonRender ==
    \E day \in Days :
        /\ races # <<>>
        /\ day > today
        /\ today' = day
        /\ cards' = seasonRender(races, day, ambientTz)
        /\ UNCHANGED <<now, races, nonSeasonVars>>

----------------------------------------------------------------------------
(* HeroDataProvider, front/src/context/HeroDataContext.tsx *)

MaxLoads == 2

LoadIds == 1..MaxLoads

Timezones == {"UTC", "Europe/Moscow"}

\* What /api/settings may answer in its timezone field ("": absent or empty).
SettingsTimezones == Timezones \cup {""}

\* Responses of /api/next-race: a response that is not ok carries nothing
\* else, a session name comes with its instant, and the responses that lack
\* the season or the round are represented by those with the session at T+1h.
LoadHints ==
    {h \in Hint :
        /\ h.event = 1
        /\ h.iso \in {NoStart, HOUR, 5 * HOUR}
        /\ h.status # "ok" => (h.season = 0 /\ h.round = 0 /\ h.iso = NoStart)
        /\ h.status = "ok" => (h.season # 0 \/ h.round # 0)
        /\ (h.status = "ok" /\ (h.season = 0 \/ h.round = 0)) => h.iso = HOUR
        /\ (h.name = 1) <=> (h.iso # NoStart)}

\* Session lists the backend may hold for the weekend.
ServerSchedules ==
    { <<>>,
      << [name |-> 1, start |-> 5 * HOUR] >>,
      << [name |-> 1, start |-> 5 * HOUR],
         [name |-> 2, start |-> HOUR],
         [name |-> 3, start |-> 24 * HOUR] >> }

\* HeroDataContext.tsx 57: the stand-in for a rejected next-race request.
ErrorRace ==
    [status |-> "error", event |-> 0, season |-> 0, round |-> 0,
     iso |-> NoStart, name |-> 0]

\* HeroDataContext.tsx 38-43
initialState ==
    [nextRace |-> NoData, schedule |-> <<>>, userTz |-> "UTC", loaded |-> FALSE]

IdleLoad == [pc |-> "idle", raceData |-> NoData, raceRes |-> "pending", schedRes |-> "none"]

LoadIdle ==
    /\ hstate = initialState
    /\ loads = [l \in LoadIds |-> IdleLoad]
    /\ srvSchedule = <<>>

InitLoad ==
    /\ hstate = initialState
    /\ loads = [l \in LoadIds |-> IdleLoad]
    /\ srvSchedule \in ServerSchedules
    /\ now = 0
    /\ EvalIdle
    /\ HeroIdle
    /\ SettingsIdle
    /\ NextRaceIdle
    /\ RaceDetailsIdle
    /\ FavoritesIdle
    /\ SeasonIdle

\* HeroDataContext.tsx 57
raceDataOf(outcome, value) == IF outcome = "fulfilled" THEN value ELSE ErrorRace

tzOfNoDefault(outcome, timezone) == timezone

\* HeroDataContext.tsx 58-59
tzOf(outcome, timezone) ==
    IF outcome = "fulfilled" /\ timezone # "" THEN timezone ELSE "UTC"

\* HeroDataContext.tsx 63
canFetchSchedule(raceData) ==
    raceData.status = "ok" /\ raceData.season # 0 /\ raceData.round # 0

\* HeroDataContext.tsx 69-71
storeFirstSessionOnly(st, sessions) ==
    IF Len(sessions) > 0 THEN [st EXCEPT !.schedule = <<sessions[1]>>] ELSE st

storeSchedule(st, sessions) ==
    IF Len(sessions) > 0 THEN [st EXCEPT !.schedule = sessions] ELSE st

\* HeroDataContext.tsx 72-74: the inner catch swallows the rejection.
scheduleRejectedFatal(st) == [st EXCEPT !.nextRace = ErrorRace, !.loaded = TRUE]

scheduleRejectedClears(st) == [st EXCEPT !.schedule = <<>>]

scheduleRejected(st) == st

\* IndexPage (unnamed/part_009 15-17): the effect calls load() while the
\* provider is not loaded.
StartLoad(l) ==
    /\ loads[l].pc = "idle"
    /\ ~hstate.loaded
    /\ loads' = [loads EXCEPT ![l].pc = "awaitBoth"]
    /\ UNCHANGED <<hstate, srvSchedule, now, nonLoadVars>>

\* HeroDataContext.tsx 52-63: both requests have settled.
SettleBoth(l) ==
    \E raceRes \in {"fulfilled", "rejected"}, h \in LoadHints,
       settingsRes \in {"fulfilled", "rejected"}, timezone \in SettingsTimezones :
        LET raceData == raceDataOf(raceRes, h)
        IN  /\ loads[l].pc = "awaitBoth"
            /\ hstate' = [hstate EXCEPT !.nextRace = raceData,
                                        !.userTz = tzOf(settingsRes, timezone),
                                        !.loaded = TRUE]
            /\ loads' = [loads EXCEPT
                            ![l].pc = IF canFetchSchedule(raceData)
                                      THEN "awaitSchedule" ELSE "done",
                            ![l].raceData = raceData,
                            ![l].raceRes = raceRes]
            /\ UNCHANGED <<srvSchedule, now, nonLoadVars>>

\* HeroDataContext.tsx 65-71: the weekend-schedule request resolves.
ScheduleResolve(l) ==
    /\ loads[l].pc = "awaitSchedule"
    /\ hstate' = storeSchedule(hstate, srvSchedule)
    /\ loads' = [loads EXCEPT ![l].pc = "done", ![l].schedRes = "resolved"]
    /\ UNCHANGED <<srvSchedule, now, nonLoadVars>>

\* HeroDataContext.tsx 72-74: the weekend-schedule request rejects.
ScheduleReject(l) ==
    /\ loads[l].pc = "awaitSchedule"
    /\ hstate' = scheduleRejected(hstate)
    /\ loads' = [loads EXCEPT ![l].pc = "done", ![l].schedRes = "rejected"]
    /\ UNCHANGED <<srvSchedule, now, nonLoadVars>>

NextLoad ==
    \E l \in LoadIds :
        \/ StartLoad(l)
        \/ SettleBoth(l)
        \/ ScheduleResolve(l)
        \/ ScheduleReject(l)

SpecLoad == InitLoad /\ [][NextLoad]_vars

----------------------------------------------------------------------------
(* ScheduleAggregator resolution policy, spec.md section 4.1, applied to    *)
(* the provider's state by the Hero that IndexPage (unnamed/part_009 27)    *)
(* hands nextRace and schedule to                                           *)

hasSingleSession(h) == h.iso # NoStart /\ h.name # 0

hintSession(h) == [name |-> h.name, start |-> h.iso]

\* The canonical session list: rules 1 and 2.
reconcile(nextRace, sched) ==
    IF sched # <<>> THEN sched
    ELSE IF nextRace.status = "ok" /\ hasSingleSession(nextRace) THEN <<hintSession(nextRace)>>
    ELSE <<>>

\* Rules 1-4.
aggregate(nextRace, sched, t) ==
    LET sessions == reconcile(nextRace, sched)
    IN  IF sessions # <<>> THEN evaluate(sessions, t)
        ELSE IF nextRace.status = "season_finished"
        THEN [phase |-> "completed", activeSession |-> NoSession, secondsRemaining |-> 0]
        ELSE [phase |-> "unknown", activeSession |-> NoSession, secondsRemaining |-> 0]

----------------------------------------------------------------------------
(* NextRacePage, front/src/pages/next-race/NextRacePage.tsx: load and       *)
(* loadTrack                                                                *)

\* Responses of /api/next-race as this page reads them: status, event_name,
\* season and round (a response that is not ok carries nothing else).
NextRaceHints ==
    {h \in Hint :
        /\ h.iso = NoStart /\ h.name = 0
        /\ h.season = h.round
        /\ h.status # "ok" => (h.event = 0 /\ h.season = 0)}

\* The name of the session NextRacePage.tsx 62 looks for.
RaceName == 3

\* Session lists /api/weekend-schedule may answer with (<<>>: sessions
\* absent or empty); start carries utc_iso.
NextRaceSchedules ==
    { <<>>,
      << [name |-> 1, start |-> HOUR], [name |-> RaceName, start |-> 24 * HOUR] >>,
      << [name |-> 1, start |-> Malformed], [name |-> 2, start |-> NoStart] >>,
      << [name |-> 1, start |-> 5 * HOUR], [name |-> RaceName, start |-> Malformed] >> }

NextRaceTimezones == {"", "Europe/Moscow", BadTimezone}

\* NextRacePage.tsx 61-62: the place of the race session, 0 when none.
raceSessionOf(sessions) ==
    IF \E i \in DOMAIN sessions : sessions[i].name = RaceName
    THEN Min({i \in DOMAIN sessions : sessions[i].name = RaceName})
    ELSE 0

\* toLocaleTimeString of new Date(iso) with the timeZone option: the text
\* for an invalid Date is returned before the timezone is looked at.
formatStart(start, tz) ==
    IF start = Malformed THEN TimeText("invalid", 0, tz)
    ELSE TimeText("formatted", start, tz)

\* The call above throws a RangeError.
formatThrows(start, tz) == start # Malformed /\ tz \notin ValidTimezones

\* NextRacePage.tsx 63-82: whether formatting the race start throws, and the
\* text set when it does not.
raceStartThrows(sessions, tz) ==
    /\ raceSessionOf(sessions) # 0
    /\ sessions[raceSessionOf(sessions)].start # NoStart
    /\ formatThrows(sessions[raceSessionOf(sessions)].start, tz)

raceTimeTextOf(sessions, tz) ==
    IF raceSessionOf(sessions) # 0 /\ sessions[raceSessionOf(sessions)].start # NoStart
    THEN formatStart(sessions[raceSessionOf(sessions)].start, tz)
    ELSE TimeText("placeholder", 0, tz)

\* NextRacePage.tsx 86-107: one row of the session list.
sessionRow(s, tz) ==
    [name |-> s.name,
     time |-> IF s.start = NoStart THEN TimeText("placeholder", 0, tz)
              ELSE IF formatThrows(s.start, tz) THEN TimeText("fallback", 0, tz)
              ELSE formatStart(s.start, tz)]

\* The effect of NextRacePage.tsx 129-146 runs after a render with an event
\* name and loading = false.
trackEffect(p) ==
    IF p.eventName # 0 /\ ~p.loading
    THEN [pc |-> "awaitFetch", cancelled |-> FALSE]
    ELSE track

\* NextRacePage.tsx 35-53: /api/next-race and /api/settings have settled.
NextRaceSettleBoth ==
    \E raceRes \in {"fulfilled", "rejected"}, h \in NextRaceHints,
       settingsRes \in {"fulfilled", "rejected"}, tz \in NextRaceTimezones :
        LET raceData == raceDataOf(raceRes, h)
            userTz == tzOf(settingsRes, tz)
            settled == IF settingsRes = "rejected" THEN "rejected" ELSE tz
        IN  /\ nrLoad.pc = "awaitBoth"
            /\ IF nrLoad.cancelled
               THEN /\ nrLoad' = [nrLoad EXCEPT !.pc = "done"]
                    /\ UNCHANGED <<page, setAfterUnmount>>
               ELSE IF raceData.status # "ok"
               THEN /\ page' = [page EXCEPT
                                  !.title = IF raceData.status = "season_finished"
                                            THEN "season_finished" ELSE "no_data",
                                  !.sessions = <<>>,
                                  !.loading = FALSE]
                    /\ nrLoad' = [nrLoad EXCEPT !.pc = "done", !.raceData = raceData,
                                                !.settings = settled,
                                                !.userTz = userTz]
                    /\ setAfterUnmount' = (setAfterUnmount \/ ~nrMounted)
               ELSE /\ page' = [page EXCEPT
                                  !.title = IF raceData.event # 0 THEN "event" ELSE "loading",
                                  !.eventName = raceData.event]
                    /\ nrLoad' = [nrLoad EXCEPT !.pc = "awaitSchedule",
                                                !.raceData = raceData,
                                                !.settings = settled,
                                                !.userTz = userTz]
                    /\ setAfterUnmount' = (setAfterUnmount \/ ~nrMounted)
            /\ UNCHANGED <<now, nrMounted, track, nonNextRaceVars>>

\* NextRacePage.tsx 112-121: the catch and finally blocks.
caught(p) == [p EXCEPT !.error = TRUE, !.title = "error", !.loading = FALSE]

\* NextRacePage.tsx 55-121: /api/weekend-schedule resolves.
NextRaceScheduleResolve ==
    \E sessions \in NextRaceSchedules :
        /\ nrLoad.pc = "awaitSchedule"
        /\ IF nrLoad.cancelled
           THEN /\ nrLoad' = [nrLoad EXCEPT !.pc = "done", !.schedRes = "resolved"]
                /\ UNCHANGED <<page, track, setAfterUnmount>>
           ELSE /\ page' =
                      IF raceStartThrows(sessions, nrLoad.userTz)
                      THEN caught(page)
                      ELSE [page EXCEPT
                              !.raceTimeText = raceTimeTextOf(sessions, nrLoad.userTz),
                              !.sessions = [i \in DOMAIN sessions |->
                                              sessionRow(sessions[i], nrLoad.userTz)],
                              !.loading = FALSE]
                /\ nrLoad' = [nrLoad EXCEPT
                                !.pc = "done", !.schedRes = "resolved",
                                !.threw = raceStartThrows(sessions, nrLoad.userTz)]
                /\ track' = trackEffect(page')
                /\ setAfterUnmount' = (setAfterUnmount \/ ~nrMounted)
        /\ UNCHANGED <<now, nrMounted, nonNextRaceVars>>

\* NextRacePage.tsx 55-58, 112-121: /api/weekend-schedule rejects.
NextRaceScheduleReject ==
    /\ nrLoad.pc = "awaitSchedule"
    /\ nrLoad' = [nrLoad EXCEPT !.pc = "done", !.schedRes = "rejected"]
    /\ IF nrLoad.cancelled
       THEN UNCHANGED <<page, track, setAfterUnmount>>
       ELSE /\ page' = caught(page)
            /\ track' = trackEffect(page')
            /\ setAfterUnmount' = (setAfterUnmount \/ ~nrMounted)
    /\ UNCHANGED <<now, nrMounted, nonNextRaceVars>>

\* NextRacePage.tsx 135-136: fetch(trackUrl) resolves with res.ok = ok.
TrackFetchResolve ==
    \E ok \in BOOLEAN :
        /\ track.pc = "awaitFetch"
        /\ track' = [track EXCEPT !.pc = IF ok /\ ~track.cancelled
                                         THEN "awaitText" ELSE "done"]
        /\ UNCHANGED <<now, nrMounted, page, nrLoad, setAfterUnmount, nonNextRaceVars>>

\* NextRacePage.tsx 137-138: res.text() resolves and setTrackSvg is called.
TrackTextResolve ==
    /\ track.pc = "awaitText"
    /\ track' = [track EXCEPT !.pc = "done"]
    /\ page' = [page EXCEPT !.trackSvg = TRUE]
    /\ setAfterUnmount' = (setAfterUnmount \/ ~nrMounted)
    /\ UNCHANGED <<now, nrMounted, nrLoad, nonNextRaceVars>>

\* NextRacePage.tsx 140-142: fetch or res.text() rejects.
TrackReject ==
    /\ track.pc \in {"awaitFetch", "awaitText"}
    /\ track' = [track EXCEPT !.pc = "done"]
    /\ UNCHANGED <<now, nrMounted, page, nrLoad, setAfterUnmount, nonNextRaceVars>>

\* NextRacePage.tsx 124-126, 145: the page is torn down.
NextRaceUnmount ==
    /\ nrMounted
    /\ nrMounted' = FALSE
    /\ nrLoad' = [nrLoad EXCEPT !.cancelled = TRUE]
    /\ track' = IF track.pc = "idle" THEN track ELSE [track EXCEPT !.cancelled = TRUE]
    /\ UNCHANGED <<now, page, setAfterUnmount, nonNextRaceVars>>

\* NextRacePage mounted: load() called, its first two requests in flight.
InitNextRace ==
    /\ now = 0
    /\ nrMounted = TRUE
    /\ page = initialPage
    /\ nrLoad = [IdleNrLoad EXCEPT !.pc = "awaitBoth"]
    /\ track = IdleTrack
    /\ setAfterUnmount = FALSE
    /\ EvalIdle
    /\ HeroIdle
    /\ LoadIdle
    /\ SettingsIdle
    /\ RaceDetailsIdle
    /\ FavoritesIdle
    /\ SeasonIdle

NextNextRace ==
    \/ NextRaceSettleBoth \/ NextRaceScheduleResolve \/ NextRaceScheduleReject
    \/ TrackFetchResolve \/ TrackTextResolve \/ TrackReject
    \/ NextRaceUnmount

SpecNextRace == InitNextRace /\ [][NextNextRace]_vars

----------------------------------------------------------------------------
\* RaceDetailsPage mounted on a device in some timezone: load() called, its
\* two requests in flight.
InitRaceDetails ==
    /\ now = 0
    /\ ambientTz \in AmbientTimezones
    /\ details = initialDetails
    /\ rdLoad = [pc |-> "awaitBoth", cancelled |-> FALSE]
    /\ rdRows = <<>>
    /\ EvalIdle
    /\ HeroIdle
    /\ LoadIdle
    /\ SettingsIdle
    /\ NextRaceIdle
    /\ FavoritesIdle
    /\ SeasonIdle

NextRaceDetails ==
    \/ RaceDetailsResolve \/ RaceDetailsReject \/ RaceDetailsTrackSettle
    \/ RaceDetailsUnmount

SpecRaceDetails == InitRaceDetails /\ [][NextRaceDetails]_vars

----------------------------------------------------------------------------
\* FavoritesPage loaded: the local favourites agree with the server's.
InitFavorites ==
    /\ now = 0
    /\ userFavorites \in SUBSET Codes
    /\ serverFavorites = userFavorites
    /\ inFlight = [c \in Codes |-> 0]
    /\ toggles = 0
    /\ EvalIdle
    /\ HeroIdle
    /\ LoadIdle
    /\ SettingsIdle
    /\ NextRaceIdle
    /\ RaceDetailsIdle
    /\ SeasonIdle

NextFavorites ==
    \E code \in Codes :
        \/ ToggleDriver(code)
        \/ ToggleApplied(code)
        \/ ToggleRefused(code)
        \/ ToggleNetworkError(code)

SpecFavorites == InitFavorites /\ [][NextFavorites]_vars

\* SeasonPage mounted on a device in some timezone, /api/season in flight.
InitSeason ==
    /\ now = 0
    /\ races = <<>>
    /\ today \in Days
    /\ cards = <<>>
    /\ ambientTz \in AmbientTimezones
    /\ details = initialDetails
    /\ rdLoad = [pc |-> "idle", cancelled |-> FALSE]
    /\ rdRows = <<>>
    /\ EvalIdle
    /\ HeroIdle
    /\ LoadIdle
    /\ SettingsIdle
    /\ NextRaceIdle
    /\ FavoritesIdle

NextSeason == SeasonResolve \/ SeasonRender

SpecSeason == InitSeason /\ [][NextSeason]_vars

----------------------------------------------------------------------------
\* The index view with the Hero of Hero.tsx.
\* IndexPage mounted: data = null, load() called, the request in flight.
InitHero ==
    /\ now \in Instants
    /\ data = NoData
    /\ indexPc = "loading"
    /\ cancelled = FALSE
    /\ mounted = TRUE
    /\ subIsLive = FALSE
    /\ timerText = NoText
    /\ interval = NoTimer
    /\ timers = {}
    /\ response = NoData
    /\ ticked = FALSE
    /\ EvalIdle
    /\ LoadIdle
    /\ SettingsIdle
    /\ NextRaceIdle
    /\ RaceDetailsIdle
    /\ FavoritesIdle
    /\ SeasonIdle

NextHero == IndexLoadResolve \/ IndexLoadReject \/ HeroTick \/ IndexUnmount

SpecHero == InitHero /\ [][NextHero]_vars

----------------------------------------------------------------------------
(* Hero as a component whose parent may render it again with another        *)
(* next_session_iso                                                         *)

\* Props of a later render: an ok response for the same event whose session
\* instant differs from the one of the previous render.
LaterProps ==
    {h \in Hint :
        /\ h.status = "ok" /\ h.event = 1 /\ h.season = 1 /\ h.round = 1
        /\ h.name = 1
        /\ h.iso \in HintStarts \cup {NoStart}}

\* Hero.tsx 14-39: next_session_iso changed, so the cleanup of the previous
\* effect runs and then the effect runs for the new props. subIsLive and
\* timerText are state of the component and are kept across renders.
HeroPropsChange ==
    \E h \in LaterProps :
        LET cleared == IF interval = NoTimer THEN timers
                       ELSE clearInterval(timers, interval)
        IN  /\ mounted
            /\ data # NoData
            /\ h.iso # data.iso
            /\ data' = h
            /\ IF h.iso = NoStart
               THEN /\ interval' = NoTimer
                    /\ timers' = cleared
                    /\ UNCHANGED <<now, subIsLive, timerText, ticked>>
               ELSE \E t \in Instants :
                        /\ t >= now
                        /\ now' = t
                        /\ update(getTime(h.iso), t)
                        /\ interval' = getTime(h.iso)
                        /\ timers' = cleared \cup {getTime(h.iso)}
                        /\ ticked' = TRUE
            /\ UNCHANGED <<indexPc, response, cancelled, mounted, nonHeroVars>>

NextHeroProps == NextHero \/ HeroPropsChange

SpecHeroProps == InitHero /\ [][NextHeroProps]_vars

----------------------------------------------------------------------------
(* The countdown timer of the index view and the preview timer of the       *)
(* settings view, each view mounted and torn down any number of times       *)

\* The index view is mounted again once the request of its previous
\* activation has settled: a new Hero with fresh state.
IndexMount ==
    /\ ~mounted
    /\ ~stMounted /\ settingsPc = "idle"
    /\ indexPc \in {"idle", "done"}
    /\ mounted' = TRUE
    /\ cancelled' = FALSE
    /\ indexPc' = "loading"
    /\ data' = NoData
    /\ response' = NoData
    /\ subIsLive' = FALSE
    /\ timerText' = NoText
    /\ interval' = NoTimer
    /\ ticked' = FALSE
    /\ UNCHANGED <<now, timers, nonHeroVars>>

InitTimers ==
    /\ now = 0
    /\ EvalIdle
    /\ HeroIdle
    /\ LoadIdle
    /\ SettingsIdle
    /\ NextRaceIdle
    /\ RaceDetailsIdle
    /\ FavoritesIdle
    /\ SeasonIdle

NextTimers ==
    \/ IndexMount \/ IndexLoadResolve \/ IndexLoadReject \/ HeroTick \/ IndexUnmount
    \/ SettingsMount \/ SettingsTick \/ SettingsResolve \/ SettingsReject
    \/ SelectTimezone \/ SettingsUnmount

SpecTimers == InitTimers /\ [][NextTimers]_vars

----------------------------------------------------------------------------
(* Poller over a cached schedule, spec.md section 4.4 *)

InitEval ==
    /\ schedule \in Schedules
    /\ now \in Instants
    /\ timeline = [phase |-> "unknown", activeSession |-> NoSession, secondsRemaining |-> 0]
    /\ evaluated = FALSE
    /\ HeroIdle
    /\ LoadIdle
    /\ SettingsIdle
    /\ NextRaceIdle
    /\ RaceDetailsIdle
    /\ FavoritesIdle
    /\ SeasonIdle

\* One tick: read the clock (never earlier than the last reading) and
\* publish evaluate(schedule, now).
PollerTick ==
    \E t \in Instants :
        /\ t >= now
        /\ now' = t
        /\ timeline' = evaluate(schedule, t)
        /\ evaluated' = TRUE
        /\ UNCHANGED <<schedule, nonEvalVars>>

NextEval == PollerTick

SpecEval == InitEval /\ [][NextEval]_vars

----------------------------------------------------------------------------
(* Properties of evaluate under SpecEval *)

\* Every reordering of a source list.
Perms(seq) ==
    LET D == DOMAIN seq
    IN  { [i \in D |-> seq[p[i]]] :
            p \in {q \in [D -> D] : \A i, j \in D : i # j => q[i] # q[j]} }

AllFuture(sched, t) ==
    /\ sched # <<>>
    /\ \A i \in DOMAIN sched : sched[i].start # NoStart /\ sched[i].start > t

MinStart(sched) == Min({sched[i].start : i \in DOMAIN sched})

UniqueMinStart(sched) ==
    Cardinality({i \in DOMAIN sched : sched[i].start = MinStart(sched)}) = 1

\* C1 as stated: for a schedule whose sessions all start after now, the
\* published state is future with the session of smallest start, and every
\* permutation of the list gives the very same state.
C1_AsStated ==
    (evaluated /\ AllFuture(schedule, now)) =>
        /\ timeline.phase = "future"
        /\ timeline.activeSession.start = MinStart(schedule)
        /\ \A p \in Perms(schedule) : evaluate(p, now) = timeline

\* C1 amended: for a non-empty schedule whose sessions all start after now,
\* the published state is future, its active session is the first session in
\* list order among those with the smallest start, the countdown is the
\* whole seconds (rounded up) to that start, and every permutation of the
\* list gives the same phase, the same countdown and an active session with
\* the same start; it gives the same active session whenever the smallest
\* start is carried by one session only.
C1_FutureEarliest ==
    (evaluated /\ AllFuture(schedule, now)) =>
        /\ timeline.phase = "future"
        /\ \E i \in DOMAIN schedule :
              /\ timeline.activeSession = schedule[i]
              /\ schedule[i].start = MinStart(schedule)
              /\ \A j \in 1..(i - 1) : schedule[j].start # MinStart(schedule)
        /\ (timeline.secondsRemaining - 1) * SECOND < MinStart(schedule) - now
        /\ timeline.secondsRemaining * SECOND >= MinStart(schedule) - now
        /\ \A p \in Perms(schedule) :
              LET r == evaluate(p, now)
              IN  /\ r.phase = timeline.phase
                  /\ r.secondsRemaining = timeline.secondsRemaining
                  /\ r.activeSession.start = timeline.activeSession.start
                  /\ UniqueMinStart(schedule) => r = timeline

\* Witness of C1: three sessions, all still to start, listed out of
\* chronological order, and the second one of the list is reported.
C1_Witness ==
    /\ evaluated
    /\ Len(schedule) = 3
    /\ AllFuture(schedule, now)
    /\ schedule[1].start > schedule[2].start
    /\ schedule[3].start > schedule[1].start
    /\ timeline.phase = "future"
    /\ timeline.activeSession = schedule[2]

InWindow(s, t) == s.start # NoStart /\ s.start <= t /\ t <= s.start + SESSION_DURATION

\* C2 as stated: a session whose live window [start, start + 5400 s]
\* contains now, no other window containing now, is reported as the running
\* session whatever else the schedule holds.
C2_RunningInWindow ==
    evaluated =>
        \A i \in DOMAIN schedule :
            (/\ InWindow(schedule[i], now)
             /\ \A j \in DOMAIN schedule : j # i => ~InWindow(schedule[j], now))
            => (timeline.phase = "running" /\ timeline.activeSession = schedule[i])

\* The scenario of C2: [Qualifying T+5h, Practice 1 T+1h, Race T+24h]
\* evaluated at T+2h.
ScenarioSchedule ==
    << [name |-> 1, start |-> 5 * HOUR],
       [name |-> 2, start |-> HOUR],
       [name |-> 3, start |-> 24 * HOUR] >>

C2_Scenario ==
    (evaluated /\ schedule = ScenarioSchedule /\ now = 2 * HOUR) =>
        (timeline.phase = "running" /\ timeline.activeSession = schedule[2])

\* C3: with at least one session carrying a start, and now later than
\* start + 5400 s of every such session, the state is completed and has no
\* active session.
C3_CompletedAfterAll ==
    (/\ evaluated
     /\ \E i \in DOMAIN schedule : schedule[i].start # NoStart
     /\ \A i \in DOMAIN schedule :
            schedule[i].start # NoStart => now > schedule[i].start + SESSION_DURATION)
    => (timeline.phase = "completed" /\ timeline.activeSession = NoSession)

\* Witness of C3: the three-session scenario evaluated at T+30h.
C3_Witness ==
    /\ evaluated
    /\ schedule = ScenarioSchedule
    /\ now = 30 * HOUR
    /\ timeline.phase = "completed"

\* C5: every evaluation publishes one of the four phases, and the phase is
\* unknown exactly when no session of the schedule carries a start (the
\* empty schedule included).
C5_TotalUnknownIffNoStart ==
    evaluated =>
        /\ timeline.phase \in Phases
        /\ Cardinality({ph \in Phases : timeline.phase = ph}) = 1
        /\ (timeline.phase = "unknown")
              <=> (\A i \in DOMAIN schedule : schedule[i].start = NoStart)

\* Witness of C5: a non-empty schedule none of whose sessions carries a
\* start, evaluated to unknown.
C5_Witness ==
    /\ evaluated
    /\ Len(schedule) >= 2
    /\ \A i \in DOMAIN schedule : schedule[i].start = NoStart
    /\ timeline.phase = "unknown"

\* C6 as stated: secondsRemaining is never negative and does not increase
\* from one tick to the next when both report future, also when the active
\* session differs between them.
C6_AsStated ==
    [][ (evaluated /\ timeline.phase = "future" /\ timeline'.phase = "future")
          => (/\ timeline'.secondsRemaining <= timeline.secondsRemaining
              /\ timeline'.secondsRemaining >= 0) ]_vars

\* C6 amended: secondsRemaining is never negative, and it does not increase
\* from one tick to the next when both report future with the same active
\* session.
C6_NonIncreasingSameSession ==
    /\ [](timeline.secondsRemaining >= 0)
    /\ [][ (/\ evaluated
            /\ timeline.phase = "future"
            /\ timeline'.phase = "future"
            /\ timeline'.activeSession = timeline.activeSession)
          => timeline'.secondsRemaining <= timeline.secondsRemaining ]_vars

\* Witness of C6: a countdown that has gone down, to its last positive
\* value, one millisecond before the start.
C6_Witness ==
    /\ evaluated
    /\ timeline.phase = "future"
    /\ timeline.activeSession.start = HOUR
    /\ now = HOUR - 1
    /\ timeline.secondsRemaining = 1

----------------------------------------------------------------------------
(* Properties of the Hero component under SpecHero *)

\* C4: in every state Hero renders, an active session is shown if and only
\* if the phase is future or running.
C4_ActiveIffFutureOrRunning ==
    data.iso # Malformed =>
        (heroHasActiveSession <=> (heroPhase \in {"future", "running"}))

\* C7: for the session S the countdown targets, after an update() that read
\* the clock at now: S is not shown live when now < S.start; S is no longer
\* counted down to when now >= S.start (now = S.start included); S is no
\* longer shown live when now > S.start + 5400 s.
C7_BoundaryTransitions ==
    (ticked /\ mounted /\ interval # NoTimer /\ interval # NaN) =>
        /\ now < interval => ~subIsLive
        /\ now >= interval => subIsLive
        /\ now > interval + SESSION_DURATION => ~subIsLive

\* C22: the countdown text written by an update() that read the clock at
\* now, d whole seconds before the target: days = floor(d / 86400), hours
\* in 0..23, minutes and seconds in 0..59, the four add up to d, and the
\* days are part of the text only when days > 0.
C22_BreakdownExact ==
    (mounted /\ ticked /\ timerText.set /\ data.iso \in HintStarts /\ now <= data.iso) =>
        LET d == (data.iso - now) \div SECOND
        IN  /\ timerText.days = d \div 86400
            /\ timerText.hours \in 0..23
            /\ timerText.minutes \in 0..59
            /\ timerText.seconds \in 0..59
            /\ timerText.days * 86400 + timerText.hours * 3600
                  + timerText.minutes * 60 + timerText.seconds = d
            /\ timerText.showDays <=> timerText.days > 0

\* Witness of C22: a text with days, hours, minutes and seconds all above 0.
C22_Witness ==
    /\ mounted /\ ticked /\ timerText.set
    /\ data.iso \in HintStarts /\ now <= data.iso
    /\ timerText.showDays
    /\ timerText.hours > 0 /\ timerText.minutes > 0 /\ timerText.seconds > 0

\* C23 as stated: when update() finds the target already passed, the text
\* it leaves has every component clamped to 0.
C23_AsStated ==
    (mounted /\ ticked /\ data.iso \in HintStarts /\ now > data.iso) =>
        /\ timerText.set
        /\ timerText.days = 0 /\ timerText.hours = 0
        /\ timerText.minutes = 0 /\ timerText.seconds = 0

\* C23: no countdown text for a target that parses has a negative
\* component; when update() finds the target already passed it writes no
\* text and the live indicator replaces the countdown.
C23_NoNegativeText ==
    /\ data.iso # Malformed =>
          /\ timerText.days >= 0 /\ timerText.hours >= 0
          /\ timerText.minutes >= 0 /\ timerText.seconds >= 0
    /\ (mounted /\ ticked /\ data.iso \in HintStarts /\ now > data.iso) => subIsLive

\* Witness of C23: an update() has read the clock after the target.
C23_Witness ==
    /\ mounted /\ ticked /\ data.iso \in HintStarts /\ now > data.iso
    /\ subIsLive
    /\ timerText.set

\* C11: when the next-race request has resolved with status season_finished
\* (this view holds no full schedule), the view shows the season-finished
\* state: phase completed, the season-finished badge, no countdown and no
\* active session.
C11_SeasonFinishedShown ==
    (mounted /\ indexPc = "done" /\ response.status = "season_finished") =>
        /\ heroPhase = "completed"
        /\ subLabel(data) = "season_finished"
        /\ ~timerText.set
        /\ ~heroHasActiveSession

\* C16: a session instant that does not parse is treated as absent: the
\* session is not shown as the active one, no countdown text is produced
\* for it and it is never shown live.
C16_MalformedAsNoStart ==
    (mounted /\ data.iso = Malformed) =>
        /\ ~heroHasActiveSession
        /\ ~timerText.set
        /\ ~subIsLive
        /\ timers = {}

----------------------------------------------------------------------------
(* Properties of HeroDataProvider.load under SpecLoad *)

OnlyLoad(l) == \A m \in LoadIds : m # l => loads[m].pc = "idle"

\* C8: when the weekend-schedule request of a load rejects and its hint
\* resolved ok with a single session, the load ends without an error state:
\* the provider keeps the hint, the reconciled schedule is the one session
\* built from the hint, and every instant is classified from that session.
C8_HintFallback ==
    \A l \in LoadIds :
        (/\ OnlyLoad(l)
         /\ loads[l].pc = "done"
         /\ loads[l].schedRes = "rejected"
         /\ loads[l].raceData.iso # NoStart
         /\ loads[l].raceData.name # 0)
        => LET one == << [name |-> loads[l].raceData.name,
                          start |-> loads[l].raceData.iso] >>
           IN  /\ hstate.loaded
               /\ hstate.nextRace = loads[l].raceData
               /\ hstate.nextRace.status = "ok"
               /\ reconcile(hstate.nextRace, hstate.schedule) = one
               /\ \A t \in Instants :
                     /\ aggregate(hstate.nextRace, hstate.schedule, t) = evaluate(one, t)
                     /\ aggregate(hstate.nextRace, hstate.schedule, t).phase # "unknown"

\* Witness of C8: a finished load whose schedule request rejected, the
\* hint's session at T+1h being counted down to at T.
C8_Witness ==
    \E l \in LoadIds :
        /\ OnlyLoad(l)
        /\ loads[l].pc = "done"
        /\ loads[l].schedRes = "rejected"
        /\ hstate.nextRace.iso = HOUR
        /\ hstate.nextRace.name # 0
        /\ hstate.schedule = <<>>
        /\ aggregate(hstate.nextRace, hstate.schedule, 0).phase = "future"

\* C9: a load whose next-race request rejected, or resolved with a status
\* other than ok, still obtains the backend's non-empty session list and the
\* provider holds it for classification.
C9_ScheduleDespiteHintFailure ==
    \A l \in LoadIds :
        (/\ loads[l].pc = "done"
         /\ loads[l].raceRes # "pending"
         /\ loads[l].raceData.status # "ok"
         /\ srvSchedule # <<>>)
        => hstate.schedule = srvSchedule

\* C10: once a weekend-schedule request has resolved with a non-empty
\* list, the provider holds that list and the classification at every
\* instant is that of the list alone: it is the same whatever hint (any
\* status, any single session) it is combined with.
C10_ScheduleAuthoritative ==
    ((\E l \in LoadIds : loads[l].schedRes = "resolved") /\ srvSchedule # <<>>)
    => /\ hstate.schedule = srvSchedule
       /\ \A t \in Instants :
             \A h \in LoadHints \cup {ErrorRace, NoData, hstate.nextRace} :
                aggregate(h, hstate.schedule, t) = evaluate(srvSchedule, t)

\* Witness of C10: the three-session list is held together with a hint whose
\* own session would classify T+2h differently.
C10_Witness ==
    /\ \E l \in LoadIds : loads[l].schedRes = "resolved"
    /\ Len(hstate.schedule) = 3
    /\ hstate.nextRace.iso = HOUR
    /\ hstate.nextRace.name # 0
    /\ evaluate(<<[name |-> 1, start |-> HOUR]>>, 2 * HOUR)
          # aggregate(hstate.nextRace, hstate.schedule, 2 * HOUR)

----------------------------------------------------------------------------
(* Scan order and tie-break of evaluate under SpecEval *)

StartsAfter(s, t) == s.start # NoStart /\ s.start > t

\* The place in the source list of the first session, in ascending start
\* order with ties broken by the lower place, among the places in S.
FirstByStart(sched, S) ==
    CHOOSE i \in S :
        \A j \in S :
            \/ sched[i].start < sched[j].start
            \/ (sched[i].start = sched[j].start /\ i <= j)

\* C19: the state is running only when no session with a start begins
\* after now; whenever some session begins after now the state is future
\* with the earliest such session, even when now lies inside the live
\* window of an earlier session.
C19_FutureBeforeRunning ==
    evaluated =>
        LET F == {i \in DOMAIN schedule : StartsAfter(schedule[i], now)}
        IN  /\ timeline.phase = "running" => F = {}
            /\ F # {} =>
                  /\ timeline.phase = "future"
                  /\ timeline.activeSession.start = Min({schedule[i].start : i \in F})

\* Witness of C19: now lies in the live window of one session while a later
\* session has not begun, and the state is future with the later session.
C19_Witness ==
    /\ evaluated
    /\ \E i \in DOMAIN schedule : InWindow(schedule[i], now)
    /\ \E i \in DOMAIN schedule : StartsAfter(schedule[i], now)
    /\ timeline.phase = "future"
    /\ ~InWindow(timeline.activeSession, now)

\* C20: when several sessions match, exactly one is reported: the first in
\* ascending start order, ties on the start broken by the lower original
\* index, both for the sessions still to begin and for the sessions whose
\* live windows contain now; the state always names one session or none.
C20_FirstMatchOnly ==
    evaluated =>
        LET F == {i \in DOMAIN schedule : StartsAfter(schedule[i], now)}
            R == {i \in DOMAIN schedule : InWindow(schedule[i], now)}
        IN  /\ timeline.phase \in Phases
            /\ timeline.activeSession \in Session \cup {NoSession}
            /\ F # {} => timeline.activeSession = schedule[FirstByStart(schedule, F)]
            /\ (F = {} /\ R # {}) =>
                  /\ timeline.phase = "running"
                  /\ timeline.activeSession = schedule[FirstByStart(schedule, R)]

\* Witness of C20: two sessions share one start, now lies in the live window
\* of both, nothing is still to begin, and the one listed first is reported
\* as the only running session.
C20_Witness ==
    /\ evaluated
    /\ timeline.phase = "running"
    /\ \E i, j \in DOMAIN schedule :
          /\ i < j
          /\ schedule[i].start = schedule[j].start
          /\ InWindow(schedule[i], now)
          /\ schedule[i].name # schedule[j].name
          /\ timeline.activeSession = schedule[i]

----------------------------------------------------------------------------
(* Request ordering of HeroDataProvider.load under SpecLoad *)

\* The Hero of IndexPage (unnamed/part_009 27) has a label, a countdown or a
\* live indicator to show from what the provider holds.
classified ==
    \E t \in Instants :
        aggregate(hstate.nextRace, hstate.schedule, t).phase \in {"future", "running", "completed"}

\* C12: the hint and the full schedule are requested together and nothing
\* is classified before both requests have resolved or rejected: while a
\* request of a load is in flight, the provider hands the Hero nothing to
\* classify.
C12_ClassifiedAfterBothSettle ==
    \A l \in LoadIds :
        (OnlyLoad(l) /\ loads[l].pc \in {"awaitBoth", "awaitSchedule"}) => ~classified

\* C15: at most one set of requests is in flight at any time, whatever the
\* order of effect runs of the index view.
C15_NoOverlappingLoads ==
    Cardinality({l \in LoadIds : loads[l].pc \in {"awaitBoth", "awaitSchedule"}}) <= 1

----------------------------------------------------------------------------
(* Timer cleanup under SpecTimers *)

\* C13: once the cleanup of a timer has run, on unmount or because the
\* value the effect depends on changed, that timer no longer exists, so it
\* fires no tick and writes no state: a view that is torn down has no timer,
\* a mounted view has at most one and it is the one of the current target
\* (Hero) or timezone (SettingsPage); clearing a timer that is already
\* cleared changes nothing.
C13_TimerStoppedOnCleanup ==
    /\ Cardinality(timers) <= 1
    /\ Cardinality(previewTimers) <= 1
    /\ ~mounted => timers = {}
    /\ ~stMounted => previewTimers = {}
    /\ timers \subseteq {getTime(data.iso)}
    /\ previewTimers \subseteq {stTimezone}
    /\ \A id \in {getTime(h) : h \in HintStarts \cup {Malformed}} :
          id \notin timers => clearInterval(timers, id) = timers
    /\ \A id \in AnsweredTimezones :
          id \notin previewTimers => clearInterval(previewTimers, id) = previewTimers

\* Witness of C13: the settings view was torn down after its timezone had
\* changed and its timer had fired: the timer of the first timezone was
\* cleared by the change, the one of the second by the unmount.
C13_Witness ==
    /\ ~stMounted
    /\ settingsPc = "done"
    /\ stTimezone # DefaultTimezone
    /\ timePreview.formatted
    /\ now > 0
    /\ previewTimers = {}

----------------------------------------------------------------------------
(* Properties of NextRacePage under SpecNextRace *)

\* C14: once the page is torn down, no continuation of a request that was
\* in flight (next-race, settings, weekend-schedule, the track SVG response
\* or the read of its body) calls a state setter.
C14_NoWriteAfterTeardown == ~setAfterUnmount

\* C17: a formatting failure never turns the page into its error state:
\* when every request of the load has resolved, the page shows no error.
C17_FormattingFailureContained ==
    (nrMounted /\ nrLoad.pc = "done" /\ nrLoad.schedRes = "resolved") =>
        /\ ~page.error
        /\ page.title # "error"

\* C18: when the hint resolved ok and the weekend-schedule request rejects,
\* the page shows the hint's event and no error; an error that does not
\* come from formatting is shown only when no request gave data.
C18_ErrorOnlyWhenAllFail ==
    /\ (nrMounted /\ nrLoad.pc = "done" /\ nrLoad.raceData.status = "ok"
           /\ nrLoad.schedRes = "rejected") =>
          (~page.error /\ page.title # "error")
    /\ (page.error /\ ~nrLoad.threw) => nrLoad.raceData.status # "ok"

----------------------------------------------------------------------------
(* Further properties of HeroDataProvider.load under SpecLoad *)

\* C27: every load that has got past its first two requests has set
\* loaded = true and a nextRace that is not null, whatever the requests
\* answered, and the step in which a weekend-schedule request rejects
\* leaves nextRace, userTz and schedule (the whole provider state) as they
\* were.
C27_LoadedWhenSettled ==
    [][ /\ \A l \in LoadIds :
              loads'[l].pc \in {"awaitSchedule", "done"} =>
                  (hstate'.loaded /\ hstate'.nextRace # NoData)
        /\ \A l \in LoadIds :
              (loads[l].schedRes = "none" /\ loads'[l].schedRes = "rejected") =>
                  hstate' = hstate ]_vars

\* Witness of C27: a load has ended on a rejected weekend-schedule request
\* while the provider holds a schedule stored by another load.
C27_Witness ==
    \E l \in LoadIds :
        /\ loads[l].pc = "done"
        /\ loads[l].schedRes = "rejected"
        /\ hstate.loaded
        /\ hstate.schedule # <<>>

\* C30: a schedule held by the provider belongs to the event of the
\* nextRace it holds: when schedule is not empty, nextRace has status ok
\* and carries the season and round a schedule is fetched for.
C30_ScheduleBelongsToNextRace ==
    hstate.schedule # <<>> =>
        /\ hstate.nextRace.status = "ok"
        /\ hstate.nextRace.season # 0
        /\ hstate.nextRace.round # 0

----------------------------------------------------------------------------
(* The user's timezone in NextRacePage under SpecNextRace *)

----------------------------------------------------------------------------
(* Properties of RaceDetailsPage under SpecRaceDetails *)

\* C21: a session with no scheduled start (neither utc_iso nor local) is
\* listed but never classified: its row is neither dimmed as past nor
\* highlighted as active.
C21_NoStartNeverClassified ==
    \A i \in DOMAIN rdRows :
        (details.data[i].utc_iso = NoStart /\ details.data[i].local = NoStart) =>
            (~rdRows[i].isPast /\ ~rdRows[i].isActive)

\* C25: the time text of a session with an instant depends only on the
\* instant and the timezone id: a device in any other timezone renders the
\* same text, on the path where formatting fails as well.
C25_AmbientIndependent ==
    \A i \in DOMAIN rdRows :
        details.data[i].utc_iso # NoStart =>
            \A other \in AmbientTimezones :
                detailsRow(details.data[i], now, detailsTz(details.settings), other).timeStr
                    = rdRows[i].timeStr

----------------------------------------------------------------------------
(* Hero across target changes, under SpecHeroProps *)

\* C26: the live indicator is shown only if the current target instant is
\* strictly earlier than the instant of the latest tick; after a change to
\* a target still to come the countdown is shown again.
C26_LiveOnlyPastCurrentTarget ==
    (mounted /\ subIsLive /\ data.iso \in HintStarts) => data.iso < now

----------------------------------------------------------------------------
(* FavoritesPage under SpecFavorites *)

\* C28: once every toggle request has settled, the local favourites are
\* the server's: a code is in the local set exactly when the server, having
\* started from the same set, applied an odd number of toggles for it; a
\* toggle that failed, by network error or by a non-2xx response, is undone.
C28_LocalMatchesServerWhenSettled ==
    (\A code \in Codes : inFlight[code] = 0) => userFavorites = serverFavorites

----------------------------------------------------------------------------
(* SeasonPage under SpecSeason *)

\* C29: at most one card is next, every card is one of finished, next and
\* future, and a card is next exactly when its race is the first in list
\* order whose date plus one day is not before the device's midnight (such
\* a race is never finished).
C29_OneNextFirstInOrder ==
    /\ DOMAIN cards = DOMAIN races
    /\ Cardinality({i \in DOMAIN cards : cards[i] = "next"}) <= 1
    /\ \A i \in DOMAIN cards :
          /\ cards[i] \in {"finished", "next", "future"}
          /\ cards[i] = "next" <=>
                /\ races[i] # BadDate
                /\ races[i] * DAY + DAY >= today * DAY - utcOffset(ambientTz)
                /\ \A j \in 1..(i - 1) :
                      races[j] = BadDate
                        \/ races[j] * DAY + DAY < today * DAY - utcOffset(ambientTz)
          /\ cards[i] = "finished" <=>
                (races[i] # BadDate
                   /\ races[i] * DAY + DAY < today * DAY - utcOffset(ambientTz))

\* Witness of C29: a list out of date order, rendered when its first race
\* is the next one, a later card is finished and another is future.
C29_Witness ==
    /\ Len(cards) = 3
    /\ cards[1] = "next"
    /\ \E i \in 2..3 : cards[i] = "finished"
    /\ \E i \in 2..3 : cards[i] = "future"

====
